---- MODULE Spec2Model ----
(***************************************************************************)
(* gptdd: the fix-apply-retry loop (gptTestFix) and the file-watch trigger *)
(* (setupWatcher) of the watch-mode entry point, src/unnamed/part_001.     *)
(*                                                                         *)
(* One Fix Cycle is one invocation of gptTestFix.  Its suspension points   *)
(* (the awaited `ls`, the awaited test command, the awaited fetch and the  *)
(* two inquirer prompts) are the values of its pc; the code between two    *)
(* suspension points runs to completion on the event loop and is one       *)
(* action.  Texts (file contents, stderr, response content) are sequences  *)
(* of characters or words so that trim() and includes() are computed.      *)
(***************************************************************************)
EXTENDS Integers, Sequences, FiniteSets, TLC

(* ------------------------------ bounds ------------------------------- *)

\* gptTestFix invocations (the entry's, the handlers' and the re-runs') per run
MaxCycles == 4

(* --------------------------- input domains --------------------------- *)

\* a CLI option as commander hands it over: absent, empty, or a value
Undefined == "<undefined>"

OptionValues(v) == {Undefined, "", v}

\* white space as String.prototype.trim understands it
WhiteSpace == {" ", "\n"}

\* contents the target file starts with
FileTexts == {<<"f", "o">>}

\* assistant message contents the endpoint may answer with
ContentTexts == {<<"b">>, <<" ", "b", "\n">>, <<>>}

\* the needle of src/unnamed/part_001:100, word by word
CommandNotFound == <<"command", "not", "found">>

\* stderr texts of a failing test command, word by word
StderrTexts == { <<"sh:", "jest:", "command", "not", "found">>,
                 <<"not", "found", "command">> }

\* what the awaited fetch(...).then(res => res.json()) can settle with
Responses ==
    {[kind |-> k, content |-> <<>>] :
        k \in {"networkError", "noChoices", "emptyChoices", "noMessage", "noContent"}}
    \cup {[kind |-> "content", content |-> t] : t \in ContentTexts}

VARIABLES
    opts,             \* entryOptions: testToRun, fileToFix, apiKey, watchFiles
    fileExists,       \* whether the target file is on disk
    fileData,         \* the target file's contents on disk
    globMatches,      \* whether the watch glob resolves to at least one path
    entered,          \* entry() has been called
    exited,           \* process.exit has been called
    exitCode,         \* the code it was called with
    watcher,          \* module-level `watcher` (0: undefined, else an index)
    watchers,         \* every chokidar watcher created so far
    abortController,  \* module-level `abortController` (0: undefined)
    controllers,      \* every AbortController created: [aborted]
    cycles            \* every gptTestFix invocation so far

vars == <<opts, fileExists, fileData, globMatches, entered, exited, exitCode,
          watcher, watchers, abortController, controllers, cycles>>

env == <<opts, fileExists, globMatches>>

(* --------------------------- pure helpers ---------------------------- *)

\* JavaScript truthiness of an option string: !v
Falsy(v) == v \in {Undefined, ""}

\* `watchFiles = ""` default of the destructuring
WatchFilesOf(o) == IF o.watchFiles = Undefined THEN "" ELSE o.watchFiles

\* String.prototype.includes on word sequences
Includes(s, sub) ==
    \E k \in 0..(Len(s) - Len(sub)) :
        \A j \in 1..Len(sub) : s[k + j] = sub[j]

RECURSIVE TrimStart(_)
TrimStart(s) ==
    IF s # <<>> /\ Head(s) \in WhiteSpace THEN TrimStart(Tail(s)) ELSE s

RECURSIVE TrimEnd(_)
TrimEnd(s) ==
    IF s # <<>> /\ s[Len(s)] \in WhiteSpace
    THEN TrimEnd(SubSeq(s, 1, Len(s) - 1))
    ELSE s

\* String.prototype.trim
TrimLeadingOnly(s) == TrimStart(s)

Trim(s) == TrimEnd(TrimStart(s))

\* the exit code errorAndExit and the catch blocks pass to process.exit
ErrorExitCode == 1

\* the exit code of step 10 without a watch glob
SuccessExitCode == 0

\* steps 1: the first required option that is missing ("" when none is)
RequiredMissingSkipsApiKey(o) ==
    IF Falsy(o.testToRun) THEN "--testToRun is required"
    ELSE IF Falsy(o.fileToFix) THEN "--fileToFix is required"
    ELSE ""

RequiredMissing(o) ==
    IF Falsy(o.testToRun) THEN "--testToRun is required"
    ELSE IF Falsy(o.fileToFix) THEN "--fileToFix is required"
    ELSE IF Falsy(o.apiKey) THEN "--apiKey is required"
    ELSE ""

\* fetch settles with an error instead of a parsed body
ResponseThrows(r) == r.kind \in {"networkError", "noChoices", "emptyChoices", "noContent"}

\* the name of the error thrown while the response is awaited or taken apart
ResponseError(r) == IF r.kind = "networkError" THEN "FetchError" ELSE "TypeError"

\* response.choices[0].message?.content.trim() ?? ""
ExtractFileChanges(r) == IF r.kind = "noMessage" THEN <<>> ELSE Trim(r.content)

\* writeFileSync(path, data): what the file holds afterwards
WriteFileSyncAppends(old, data) == old \o data

WriteFileSync(old, data) == data

(* ------------------------------ records ------------------------------ *)

\* `response` before the fetch settled
NoResponse == [kind |-> "none", content |-> <<>>]

NewCycle(sig, org) ==
    [ pc           |-> "ls",      \* "exit" "ls" "test" "fetch" "apply" "rerun"
                                  \* "restart" "done" "reran" "failed"
      signal       |-> sig,       \* index of the controller whose signal it got
                                  \* (0: none)
      origin       |-> org,       \* whose catch its errors reach: "entry" "change"
      file         |-> <<>>,      \* `file`, as read by readFileSync
      fileRead     |-> FALSE,
      stderr       |-> <<>>,
      testResult   |-> "none",    \* "none" "pass" "fail"
      success      |-> FALSE,     \* "All tests passed!" was printed
      response     |-> NoResponse, \* `response`, until the proposal is settled
      fileChanges  |-> <<>>,      \* the Fix Proposal
      shown        |-> <<>>,      \* the text written out for the proposal
      applyChanges |-> "none",    \* "none" "yes" "no"
      err          |-> "none",    \* name of the error that left gptTestFix
      reported     |-> FALSE,     \* console.error("Error:", ...) ran for it
      subprocs     |-> 0,         \* subprocesses started (ls and the test)
      testStarted  |-> FALSE,
      requests     |-> 0,         \* completion requests sent
      prompts      |-> 0,         \* apply prompts shown
      writes       |-> 0 ]        \* writeFileSync calls

NewWatcher(k, sig) ==
    [ kind   |-> k,        \* "validate": step 2's; "change": setupWatcher's
      open   |-> TRUE,
      pending |-> (k = "validate"),  \* its "ready" callback is still to run
      signal |-> sig ]     \* options.signal captured by the change handler

Aborted(sig) == controllers[sig].aborted

Active(c) == c.pc \in {"ls", "test", "fetch", "apply", "rerun", "restart"}

Running == entered /\ ~exited

(* ------------------- gptTestFix, between two awaits ------------------- *)

\* gptTestFix is left: its locals `file` and `fileChanges` are gone
Return(c, at) ==
    [c EXCEPT !.pc = at, !.file = <<>>, !.response = NoResponse,
              !.fileChanges = <<>>, !.shown = <<>>]

\* an error leaves gptTestFix: the handler's catch (lines 215-219) stays
\* silent on an AbortError and logs anything else; entry's catch (241-244)
\* logs whatever it gets, and so does the runtime for a rejection nobody
\* handles
Propagate(c, e) ==
    [Return(c, "failed") EXCEPT
        !.err = e, !.reported = (c.origin # "change" \/ e # "AbortError")]

\* lines 40-66: validation, the glob-validation watcher, `ls` started
GptTestFixBegin(cyc, ws, w, sig, org) ==
    IF RequiredMissing(opts) # ""
    THEN [cycles   |-> Append(cyc, [NewCycle(sig, org) EXCEPT !.pc = "exit"]),
          watchers |-> ws, watcher |-> w, exit |-> TRUE]
    ELSE LET ws2 == IF WatchFilesOf(opts) # ""
                    THEN Append(ws, NewWatcher("validate", sig)) ELSE ws
             w2  == IF WatchFilesOf(opts) # "" THEN Len(ws2) ELSE w
         IN [cycles   |-> Append(cyc, [NewCycle(sig, org) EXCEPT !.subprocs = 1]),
             watchers |-> ws2, watcher |-> w2, exit |-> FALSE]

\* lines 66-77: `ls` settled; the file is read and the test command started
AfterLsUnchecked(c, exists, data) ==
    [c EXCEPT !.pc = "test", !.file = data, !.fileRead = exists,
              !.testStarted = TRUE, !.subprocs = c.subprocs + 1]

AfterLsKeepsFile(c, exists, data) ==
    IF ~exists THEN Propagate(c, "ExecError")
    ELSE [c EXCEPT !.pc = "test", !.fileRead = TRUE,
                   !.testStarted = TRUE, !.subprocs = c.subprocs + 1]

AfterLs(c, exists, data) ==
    IF ~exists THEN Propagate(c, "ExecError")
    ELSE [c EXCEPT !.pc = "test", !.file = data, !.fileRead = TRUE,
                   !.testStarted = TRUE, !.subprocs = c.subprocs + 1]

\* line 133: fetch with an already aborted signal rejects without a request
FetchIgnoresSignal(c, aborted) ==
    [c EXCEPT !.pc = "fetch", !.requests = c.requests + 1]

Fetch(c, aborted) ==
    IF aborted THEN Propagate(c, "AbortError")
    ELSE [c EXCEPT !.pc = "fetch", !.requests = c.requests + 1]

\* lines 77-134: the test command settled with exit status `status`
AfterTestAlwaysFixes(c, status, stderr, aborted) ==
    Fetch([c EXCEPT !.testResult = IF status = 0 THEN "pass" ELSE "fail",
                    !.success = (status = 0), !.stderr = stderr], aborted)

AfterTestNoRethrow(c, status, stderr, aborted) ==
    IF status = 0
    THEN [Return(c, "done") EXCEPT !.testResult = "pass", !.success = TRUE]
    ELSE Fetch([c EXCEPT !.testResult = "fail", !.stderr = stderr], aborted)

AfterTest(c, status, stderr, aborted) ==
    IF status = 0
    THEN [Return(c, "done") EXCEPT !.testResult = "pass", !.success = TRUE]
    ELSE LET c2 == [c EXCEPT !.testResult = "fail", !.stderr = stderr]
         IN IF Includes(stderr, CommandNotFound)
            THEN Propagate(c2, "ExecError")
            ELSE Fetch(c2, aborted)

\* lines 134-149: the response settled; the proposal is shown and the apply
\* prompt opened
AfterFetch(c, r) ==
    IF ResponseThrows(r) THEN Propagate(c, ResponseError(r))
    ELSE [c EXCEPT !.pc = "apply",
                   !.response = r,
                   !.fileChanges = ExtractFileChanges(r),
                   !.shown = ExtractFileChanges(r),
                   !.prompts = c.prompts + 1]

\* lines 151-153: whether the answer to the apply prompt leads to a write
ShouldWriteAlways(c, answer) == TRUE

ShouldWrite(c, answer) == answer

\* lines 151-163: the apply prompt answered; the re-run prompt opened
AfterApply(c, answer) ==
    [c EXCEPT !.pc = "rerun",
              !.response = NoResponse,
              !.applyChanges = IF answer THEN "yes" ELSE "no",
              !.writes = IF ShouldWrite(c, answer) THEN c.writes + 1 ELSE c.writes]

(* ---------------------------- setupWatcher ---------------------------- *)

\* watcher.close() of chokidar: the watcher stops emitting, its listeners
\* (the change handler, a "ready" callback still to run) are removed
Close(ws, w) == [ws EXCEPT ![w].open = FALSE, ![w].pending = FALSE]

\* lines 193-202: close the module-level watcher, open one with a change handler
SetupWatcher(ws, w, sig) ==
    LET ws2 == Append(IF w # 0 THEN Close(ws, w) ELSE ws,
                      NewWatcher("change", sig))
    IN [watchers |-> ws2, watcher |-> Len(ws2)]

\* lines 207-209: abortController.abort()
AbortPreviousSkipped(ctl, ac) == ctl

AbortPrevious(ctl, ac) ==
    IF ac # 0 THEN [ctl EXCEPT ![ac].aborted = TRUE] ELSE ctl

\* line 214: { ...options, signal: abortController.signal }
HandlerSignalKeepsOld(new, captured) == captured

HandlerSignal(new, captured) == new

\* abort() rejects every fetch pending on the aborted signal
RejectPending(cyc, ctl) ==
    [i \in DOMAIN cyc |->
        IF cyc[i].pc = "fetch" /\ ctl[cyc[i].signal].aborted
        THEN Propagate(cyc[i], "AbortError") ELSE cyc[i]]

\* line 52-53: whether Object.keys(watcher.getWatched()) is empty when the
\* "ready" callback of watcher v runs and the module-level watcher is x.
\* A scanned watcher holds the folders of the glob's matches; close() empties
\* the map, and a watcher whose scan is not known to be complete (only a
\* "ready" callback tells) may still hold nothing
FoldersEmpty(v, x) ==
    {~globMatches} \cup
    (IF x # v /\ (~watchers[x].open \/ watchers[x].kind = "change"
                                   \/ watchers[x].pending)
     THEN {TRUE} ELSE {})

(* ------------------------------ actions ------------------------------- *)

Init ==
    /\ opts \in [testToRun  : OptionValues("npm test"),
                 fileToFix  : OptionValues("a.txt"),
                 apiKey     : OptionValues("sk-1"),
                 watchFiles : OptionValues("src/*")]
    /\ fileExists \in BOOLEAN
    /\ fileData \in FileTexts
    /\ globMatches \in BOOLEAN
    /\ (WatchFilesOf(opts) = "" => globMatches = FALSE)
    /\ entered = FALSE
    /\ exited = FALSE
    /\ exitCode = 0
    /\ watcher = 0
    /\ watchers = <<>>
    /\ abortController = 0
    /\ controllers = <<>>
    /\ cycles = <<>>

\* cycle i took a step to record c2: its error reaches entry's catch, or it
\* reached step 10 (lines 170-175), or it waits at its next await
SettleExitsWithError(i, c2) ==
    /\ cycles' = [cycles EXCEPT ![i] = c2]
    /\ IF c2.pc \in {"failed", "done"} /\ c2.origin = "entry"
       THEN /\ exited' = TRUE /\ exitCode' = ErrorExitCode
            /\ UNCHANGED <<watcher, watchers>>
       ELSE IF c2.pc = "done"
       THEN LET sw == SetupWatcher(watchers, watcher, c2.signal)
            IN /\ watchers' = sw.watchers /\ watcher' = sw.watcher
               /\ UNCHANGED <<exited, exitCode>>
       ELSE UNCHANGED <<watcher, watchers, exited, exitCode>>

Settle(i, c2) ==
    /\ cycles' = [cycles EXCEPT ![i] = c2]
    /\ IF c2.pc = "failed" /\ c2.origin = "entry"
       THEN /\ exited' = TRUE /\ exitCode' = ErrorExitCode
            /\ UNCHANGED <<watcher, watchers>>
       ELSE IF c2.pc = "done" /\ WatchFilesOf(opts) = ""
       THEN /\ exited' = TRUE /\ exitCode' = SuccessExitCode
            /\ UNCHANGED <<watcher, watchers>>
       ELSE IF c2.pc = "done"
       THEN LET sw == SetupWatcher(watchers, watcher, c2.signal)
            IN /\ watchers' = sw.watchers /\ watcher' = sw.watcher
               /\ UNCHANGED <<exited, exitCode>>
       ELSE UNCHANGED <<watcher, watchers, exited, exitCode>>

\* lines 234-240: entry() creates the first controller and starts a cycle
Entry ==
    /\ ~entered
    /\ entered' = TRUE
    /\ controllers' = <<[aborted |-> FALSE]>>
    /\ abortController' = 1
    /\ LET b == GptTestFixBegin(cycles, watchers, watcher, 1, "entry")
       IN /\ cycles' = b.cycles
          /\ watchers' = b.watchers
          /\ watcher' = b.watcher
          /\ exited' = b.exit
          /\ exitCode' = IF b.exit THEN ErrorExitCode ELSE exitCode
    /\ UNCHANGED <<env, fileData>>

\* the awaited `ls` of cycle i settles
LsDone(i) ==
    /\ Running
    /\ cycles[i].pc = "ls"
    /\ Settle(i, AfterLs(cycles[i], fileExists, fileData))
    /\ UNCHANGED <<env, fileData, entered, abortController, controllers>>

\* the awaited test command of cycle i settles
TestDone(i, status, stderr) ==
    /\ Running
    /\ cycles[i].pc = "test"
    /\ Settle(i, AfterTest(cycles[i], status, stderr, Aborted(cycles[i].signal)))
    /\ UNCHANGED <<env, fileData, entered, abortController, controllers>>

\* the awaited fetch of cycle i settles with r
FetchDone(i, r) ==
    /\ Running
    /\ cycles[i].pc = "fetch"
    /\ Settle(i, AfterFetch(cycles[i], r))
    /\ UNCHANGED <<env, fileData, entered, abortController, controllers>>

\* the user answers "Apply the suggested changes?" of cycle i
ApplyAnswer(i, answer) ==
    /\ Running
    /\ cycles[i].pc = "apply"
    /\ fileData' = IF ShouldWrite(cycles[i], answer)
                   THEN WriteFileSync(fileData, cycles[i].fileChanges)
                   ELSE fileData
    /\ cycles' = [cycles EXCEPT ![i] = AfterApply(cycles[i], answer)]
    /\ UNCHANGED <<env, entered, exited, exitCode, watcher, watchers,
                   abortController, controllers>>

\* the user answers "Run the tests again?" of cycle i: lines 165-175
RerunAnswer(i, answer) ==
    /\ Running
    /\ cycles[i].pc = "rerun"
    /\ IF answer
       THEN /\ Len(cycles) < MaxCycles
            /\ LET b == GptTestFixBegin([cycles EXCEPT ![i] = Return(cycles[i], "reran")],
                                        watchers, watcher,
                                        cycles[i].signal, cycles[i].origin)
               IN /\ cycles' = b.cycles
                  /\ watchers' = b.watchers
                  /\ watcher' = b.watcher
                  /\ exited' = b.exit
                  /\ exitCode' = IF b.exit THEN ErrorExitCode ELSE exitCode
       ELSE Settle(i, Return(cycles[i], "done"))
    /\ UNCHANGED <<env, fileData, entered, abortController, controllers>>

\* lines 51-61: chokidar finished the initial scan of the glob-validation
\* watcher v and its "ready" callback runs, on the module-level `watcher`
WatcherReady(v) ==
    /\ Running
    /\ watchers[v].kind = "validate"
    /\ watchers[v].pending
    /\ \E empty \in FoldersEmpty(v, watcher) :
          IF empty
          THEN /\ exited' = TRUE /\ exitCode' = ErrorExitCode
               /\ watchers' = [watchers EXCEPT ![v].pending = FALSE]
          ELSE /\ watchers' = Close([watchers EXCEPT ![v].pending = FALSE], watcher)
               /\ UNCHANGED <<exited, exitCode>>
    /\ UNCHANGED <<env, fileData, entered, watcher, abortController,
                   controllers, cycles>>

\* lines 204-220: watcher w emits "change" and its handler runs up to the
\* first await of the cycle it starts
ChangeEvent(w) ==
    /\ Running
    /\ watchers[w].kind = "change"
    /\ watchers[w].open
    /\ Len(cycles) < MaxCycles
    /\ LET ctl == Append(AbortPrevious(controllers, abortController),
                         [aborted |-> FALSE])
           new == Len(ctl)
           b   == GptTestFixBegin(cycles, watchers, watcher,
                                  HandlerSignal(new, watchers[w].signal), "change")
           cyc == RejectPending(b.cycles, ctl)
           fatal == \E i \in DOMAIN cyc :
                       /\ cyc[i].pc = "failed" /\ cycles[i].pc = "fetch"
                       /\ cyc[i].origin = "entry"
       IN /\ controllers' = ctl
          /\ abortController' = new
          /\ cycles' = cyc
          /\ watchers' = b.watchers
          /\ watcher' = b.watcher
          /\ exited' = (b.exit \/ fatal)
          /\ exitCode' = IF b.exit \/ fatal THEN ErrorExitCode ELSE exitCode
    /\ UNCHANGED <<env, fileData, entered>>

Next ==
    \/ Entry
    \/ \E i \in DOMAIN cycles : LsDone(i)
    \/ \E i \in DOMAIN cycles : TestDone(i, 0, <<>>)
    \/ \E i \in DOMAIN cycles : \E s \in StderrTexts : TestDone(i, 1, s)
    \/ \E i \in DOMAIN cycles : \E r \in Responses : FetchDone(i, r)
    \/ \E i \in DOMAIN cycles : \E a \in BOOLEAN : ApplyAnswer(i, a)
    \/ \E i \in DOMAIN cycles : \E a \in BOOLEAN : RerunAnswer(i, a)
    \/ \E v \in DOMAIN watchers : WatcherReady(v)
    \/ \E w \in DOMAIN watchers : ChangeEvent(w)

Spec == Init /\ [][Next]_vars

(* ---- src/unnamed/part_000: the watcher is set up by entry() itself ---- *)
(* In this version of the module gptTestFix has no glob validation and    *)
(* no step 10; setupWatcher is called once, by entry(), and itself starts *)
(* the first cycle without awaiting it.  Lines are those of part_000.     *)

\* lines 104-114: validation, `ls` started
GptTestFixBeginEager(cyc, sig, org) ==
    IF RequiredMissing(opts) # ""
    THEN [cycles |-> Append(cyc, [NewCycle(sig, org) EXCEPT !.pc = "exit"]),
          exit   |-> TRUE]
    ELSE [cycles |-> Append(cyc, [NewCycle(sig, org) EXCEPT !.subprocs = 1]),
          exit   |-> FALSE]

\* what the runtime does with a rejection nobody handles: Node 15 and later
\* print the error and end the process with status 1, Node 14 and earlier
\* print it as a warning and go on
UnhandledRejectionExits == BOOLEAN

\* whether an error that leaves the cycle ends the process: the handler's
\* catch (lines 275-279) keeps it running; entry's catch (313-316) ends it;
\* the rejection of the un-awaited gptTestFix(options) of line 283 is handled
\* by nobody and left to the runtime, which exits or not (rt)
FatalOrigin(org, rt) == org = "entry" \/ (org = "startup" /\ rt)

\* cycle i took a step to record c2; without a watch glob the process ends
\* with status 0 once entry() has returned (nothing is left to wait for)
SettleEager(i, c2) ==
    /\ cycles' = [cycles EXCEPT ![i] = c2]
    /\ \E rt \in UnhandledRejectionExits :
          IF c2.pc = "failed" /\ FatalOrigin(c2.origin, rt)
          THEN exited' = TRUE /\ exitCode' = ErrorExitCode
          ELSE IF c2.pc = "done" /\ WatchFilesOf(opts) = ""
          THEN exited' = TRUE /\ exitCode' = SuccessExitCode
          ELSE UNCHANGED <<exited, exitCode>>
    /\ UNCHANGED <<watcher, watchers>>

\* lines 297-312 and 254-284: entry() creates the first controller; with a
\* watch glob setupWatcher opens the watcher and starts the first cycle
\* without awaiting it, otherwise entry() awaits the cycle itself
EntryEager ==
    /\ ~entered
    /\ entered' = TRUE
    /\ controllers' = <<[aborted |-> FALSE]>>
    /\ abortController' = 1
    /\ LET watch == WatchFilesOf(opts) # ""
           b == GptTestFixBeginEager(cycles, 1,
                                     IF watch THEN "startup" ELSE "entry")
       IN /\ cycles' = b.cycles
          /\ watchers' = IF watch THEN <<NewWatcher("change", 1)>> ELSE watchers
          /\ watcher' = IF watch THEN 1 ELSE watcher
          /\ exited' = b.exit
          /\ exitCode' = IF b.exit THEN ErrorExitCode ELSE exitCode
    /\ UNCHANGED <<env, fileData>>

LsDoneEager(i) ==
    /\ Running
    /\ cycles[i].pc = "ls"
    /\ SettleEager(i, AfterLs(cycles[i], fileExists, fileData))
    /\ UNCHANGED <<env, fileData, entered, abortController, controllers>>

TestDoneEager(i, status, stderr) ==
    /\ Running
    /\ cycles[i].pc = "test"
    /\ SettleEager(i, AfterTest(cycles[i], status, stderr,
                                Aborted(cycles[i].signal)))
    /\ UNCHANGED <<env, fileData, entered, abortController, controllers>>

\* line 197: diffChars(file, fileChanges) of the `diff` package (5.x), whose
\* code is not in src/.  It searches, edit length by edit length, the
\* farthest-reaching path on every diagonal (new position minus old
\* position); a path is the number of characters of the new text it has
\* consumed and its components so far
NoPath == [newPos |-> -1, components |-> <<>>]

PathOn(best, d) == IF d \in DOMAIN best THEN best[d] ELSE NoPath

\* pushComponent: a component of the same kind as the last one extends it
PushComponent(cs, op) ==
    IF cs # <<>> /\ cs[Len(cs)].op = op
    THEN [cs EXCEPT ![Len(cs)].count = cs[Len(cs)].count + 1]
    ELSE Append(cs, [op |-> op, count |-> 1])

\* extractCommon: follow diagonal d while the two texts agree
RECURSIVE ExtractCommon(_, _, _, _)
ExtractCommon(old, new, path, d) ==
    LET np == path.newPos
        op == np - d
    IN IF np < Len(new) /\ op < Len(old) /\ new[np + 1] = old[op + 1]
       THEN ExtractCommon(old, new,
                [newPos |-> np + 1,
                 components |-> PushComponent(path.components, "common")], d)
       ELSE path

\* the path that reaches diagonal d with one more edit: from diagonal d - 1
\* by an addition or from diagonal d + 1 by a removal, the removal only when
\* no addition is possible or when it starts farther along the new text
EditStep(old, new, best, d) ==
    LET addPath    == PathOn(best, d - 1)
        removePath == PathOn(best, d + 1)
        canAdd     == addPath # NoPath /\ addPath.newPos < Len(new)
        oldPos     == removePath.newPos - d - 1
        canRemove  == removePath # NoPath /\ 0 <= oldPos /\ oldPos < Len(old)
    IN IF ~canAdd /\ ~canRemove THEN NoPath
       ELSE IF ~canAdd \/ (canRemove /\ addPath.newPos < removePath.newPos)
       THEN ExtractCommon(old, new,
                [newPos |-> removePath.newPos,
                 components |-> PushComponent(removePath.components, "removed")], d)
       ELSE ExtractCommon(old, new,
                [newPos |-> addPath.newPos + 1,
                 components |-> PushComponent(addPath.components, "added")], d)

\* the path on diagonal d has consumed both texts
ReachedEnd(old, new, path, d) ==
    path # NoPath /\ path.newPos >= Len(new) /\ path.newPos - d >= Len(old)

\* execEditLength: the diagonals -editLength, -editLength + 2, ... in that
\* order; the first path that reaches the end is the result
RECURSIVE ExecEditLength(_, _, _, _)
ExecEditLength(old, new, best, editLength) ==
    LET cur == [d \in (0 - editLength)..editLength |->
                   IF (d + editLength) % 2 = 0
                   THEN EditStep(old, new, best, d) ELSE NoPath]
        ended == {d \in DOMAIN cur : ReachedEnd(old, new, cur[d], d)}
    IN IF ended # {}
       THEN cur[CHOOSE d \in ended : \A e \in ended : d <= e].components
       ELSE ExecEditLength(old, new, cur, editLength + 1)

\* the components of the edit script found; for equal texts one common
\* component, of count 0 when both are empty
EditScript(old, new) ==
    LET p0 == ExtractCommon(old, new, [newPos |-> 0, components |-> <<>>], 0)
    IN IF ReachedEnd(old, new, p0, 0)
       THEN <<[op |-> "common", count |-> Len(new)]>>
       ELSE ExecEditLength(old, new, [d \in {0} |-> p0], 1)

\* buildValues: every component gets its text, of the new text unless it is
\* a removal
RECURSIVE ComponentValues(_, _, _, _, _)
ComponentValues(old, new, cs, newPos, oldPos) ==
    IF cs = <<>> THEN <<>>
    ELSE LET c == Head(cs)
         IN IF c.op = "removed"
            THEN <<[op |-> c.op, value |-> SubSeq(old, oldPos + 1, oldPos + c.count)]>>
                 \o ComponentValues(old, new, Tail(cs), newPos, oldPos + c.count)
            ELSE <<[op |-> c.op, value |-> SubSeq(new, newPos + 1, newPos + c.count)]>>
                 \o ComponentValues(old, new, Tail(cs), newPos + c.count,
                                    IF c.op = "common" THEN oldPos + c.count ELSE oldPos)

\* buildValues: a removal found right after an addition is put before it
RECURSIVE RemovesFirst(_, _)
RemovesFirst(parts, k) ==
    IF k > Len(parts) THEN parts
    ELSE IF k > 1 /\ parts[k].op = "removed" /\ parts[k - 1].op = "added"
    THEN RemovesFirst([parts EXCEPT ![k - 1] = parts[k], ![k] = parts[k - 1]], k + 1)
    ELSE RemovesFirst(parts, k + 1)

\* the parts diffChars returns
DiffParts(old, new) ==
    RemovesFirst(ComponentValues(old, new, EditScript(old, new), 0, 0), 1)

\* the parts, one per character
RECURSIVE PerCharacter(_)
PerCharacter(parts) ==
    IF parts = <<>> THEN <<>>
    ELSE [k \in DOMAIN Head(parts).value |->
             [op |-> Head(parts).op, value |-> Head(parts).value[k]]]
         \o PerCharacter(Tail(parts))

DiffChars(a, b) == PerCharacter(DiffParts(a, b))

\* lines 198-203: every part of the diff is written out, the removed ones
\* included; the colours are left out
DiffShown(file, fileChanges) ==
    LET d == DiffChars(file, fileChanges) IN [k \in DOMAIN d |-> d[k].value]

\* lines 177-213: the response settled; the diff of the file and the proposal
\* is shown and the apply prompt opened
AfterFetchDiff(c, r) ==
    IF ResponseThrows(r) THEN Propagate(c, ResponseError(r))
    ELSE [c EXCEPT !.pc = "apply",
                   !.response = r,
                   !.fileChanges = ExtractFileChanges(r),
                   !.shown = DiffShown(c.file, ExtractFileChanges(r)),
                   !.prompts = c.prompts + 1]

FetchDoneEager(i, r) ==
    /\ Running
    /\ cycles[i].pc = "fetch"
    /\ SettleEager(i, AfterFetchDiff(cycles[i], r))
    /\ UNCHANGED <<env, fileData, entered, abortController, controllers>>

\* lines 221-236: "Run the tests again?" answered
RerunAnswerEager(i, answer) ==
    /\ Running
    /\ cycles[i].pc = "rerun"
    /\ IF answer
       THEN /\ Len(cycles) < MaxCycles
            /\ LET b == GptTestFixBeginEager(
                            [cycles EXCEPT ![i] = Return(cycles[i], "reran")],
                            cycles[i].signal, cycles[i].origin)
               IN /\ cycles' = b.cycles
                  /\ exited' = b.exit
                  /\ exitCode' = IF b.exit THEN ErrorExitCode ELSE exitCode
                  /\ UNCHANGED <<watcher, watchers>>
       ELSE SettleEager(i, Return(cycles[i], "done"))
    /\ UNCHANGED <<env, fileData, entered, abortController, controllers>>

\* lines 263-280: the change handler
ChangeEventEager(w) ==
    /\ Running
    /\ watchers[w].kind = "change"
    /\ watchers[w].open
    /\ Len(cycles) < MaxCycles
    /\ \E rt \in UnhandledRejectionExits :
       LET ctl == Append(AbortPrevious(controllers, abortController),
                         [aborted |-> FALSE])
           new == Len(ctl)
           b   == GptTestFixBeginEager(cycles,
                      HandlerSignal(new, watchers[w].signal), "change")
           cyc == RejectPending(b.cycles, ctl)
           fatal == \E i \in DOMAIN cycles :
                       /\ cyc[i].pc = "failed" /\ cycles[i].pc = "fetch"
                       /\ FatalOrigin(cyc[i].origin, rt)
       IN /\ controllers' = ctl
          /\ abortController' = new
          /\ cycles' = cyc
          /\ exited' = (b.exit \/ fatal)
          /\ exitCode' = IF b.exit \/ fatal THEN ErrorExitCode ELSE exitCode
    /\ UNCHANGED <<env, fileData, entered, watcher, watchers>>

NextEager ==
    \/ EntryEager
    \/ \E i \in DOMAIN cycles : LsDoneEager(i)
    \/ \E i \in DOMAIN cycles : TestDoneEager(i, 0, <<>>)
    \/ \E i \in DOMAIN cycles : \E s \in StderrTexts : TestDoneEager(i, 1, s)
    \/ \E i \in DOMAIN cycles : \E r \in Responses : FetchDoneEager(i, r)
    \/ \E i \in DOMAIN cycles : \E a \in BOOLEAN : ApplyAnswer(i, a)
    \/ \E i \in DOMAIN cycles : \E a \in BOOLEAN : RerunAnswerEager(i, a)
    \/ \E w \in DOMAIN watchers : ChangeEventEager(w)

SpecEager == Init /\ [][NextEager]_vars

(* ---- src/src/index.mjs: the loop without watch mode, run by the second ---- *)
(* program of src/src/bin.js (lines 41-75).  gptTestFix(options) gets no      *)
(* signal and creates no controller; there is no "Run the tests again?"       *)
(* prompt and no final step: after the test passed or the apply prompt was    *)
(* answered the cycle waits at a press-to-continue prompt and then calls      *)
(* itself.  Lines are those of src/src/index.mjs.                             *)

\* responses whose content shares text with the file, so that the diff shown
\* has common, removed and added parts, one of them with two shortest edit
\* scripts to choose from
DiffResponses ==
    Responses \cup {[kind |-> "content", content |-> t] :
                        t \in {<<"f", "b">>, <<"o", "f">>}}

\* lines 36-46: validation, `ls` started; no signal, and every error reaches
\* the catch of bin.js (lines 56-59)
GptTestFixBeginRestart(cyc) ==
    IF RequiredMissing(opts) # ""
    THEN [cycles |-> Append(cyc, [NewCycle(0, "entry") EXCEPT !.pc = "exit"]),
          exit   |-> TRUE]
    ELSE [cycles |-> Append(cyc, [NewCycle(0, "entry") EXCEPT !.subprocs = 1]),
          exit   |-> FALSE]

\* lines 57-118: the test command settled; the fetch is sent without a signal
AfterTestRestart(c, status, stderr) ==
    IF status = 0
    THEN [c EXCEPT !.pc = "restart", !.testResult = "pass", !.success = TRUE]
    ELSE LET c2 == [c EXCEPT !.testResult = "fail", !.stderr = stderr]
         IN IF Includes(stderr, CommandNotFound)
            THEN Propagate(c2, "ExecError")
            ELSE [c2 EXCEPT !.pc = "fetch", !.requests = c2.requests + 1]

\* lines 145-161: the apply prompt answered; the press-to-continue prompt opened
AfterApplyRestart(c, answer) ==
    [AfterApply(c, answer) EXCEPT !.pc = "restart"]

\* cycle i took a step to record c2: an error that leaves gptTestFix is logged
\* by bin.js, which ends the process with status 1
SettleRestart(i, c2) ==
    /\ cycles' = [cycles EXCEPT ![i] = c2]
    /\ IF c2.pc = "failed"
       THEN exited' = TRUE /\ exitCode' = ErrorExitCode
       ELSE UNCHANGED <<exited, exitCode>>

\* src/src/bin.js lines 53-55: the action calls gptTestFix(options)
EntryRestart ==
    /\ ~entered
    /\ entered' = TRUE
    /\ LET b == GptTestFixBeginRestart(cycles)
       IN /\ cycles' = b.cycles
          /\ exited' = b.exit
          /\ exitCode' = IF b.exit THEN ErrorExitCode ELSE exitCode
    /\ UNCHANGED <<env, fileData, watcher, watchers, abortController, controllers>>

LsDoneRestart(i) ==
    /\ Running
    /\ cycles[i].pc = "ls"
    /\ SettleRestart(i, AfterLs(cycles[i], fileExists, fileData))
    /\ UNCHANGED <<env, fileData, entered, watcher, watchers,
                   abortController, controllers>>

TestDoneRestart(i, status, stderr) ==
    /\ Running
    /\ cycles[i].pc = "test"
    /\ SettleRestart(i, AfterTestRestart(cycles[i], status, stderr))
    /\ UNCHANGED <<env, fileData, entered, watcher, watchers,
                   abortController, controllers>>

FetchDoneRestart(i, r) ==
    /\ Running
    /\ cycles[i].pc = "fetch"
    /\ SettleRestart(i, AfterFetchDiff(cycles[i], r))
    /\ UNCHANGED <<env, fileData, entered, watcher, watchers,
                   abortController, controllers>>

\* lines 137-161: "Apply the suggested changes?" answered
ApplyAnswerRestart(i, answer) ==
    /\ Running
    /\ cycles[i].pc = "apply"
    /\ fileData' = IF ShouldWrite(cycles[i], answer)
                   THEN WriteFileSync(fileData, cycles[i].fileChanges)
                   ELSE fileData
    /\ cycles' = [cycles EXCEPT ![i] = AfterApplyRestart(cycles[i], answer)]
    /\ UNCHANGED <<env, entered, exited, exitCode, watcher, watchers,
                   abortController, controllers>>

\* lines 154-165: a key is pressed at "Press any key to rerun the test...";
\* the prompt's answer is truthy and gptTestFix(options) is called again
RestartAnswer(i) ==
    /\ Running
    /\ cycles[i].pc = "restart"
    /\ Len(cycles) < MaxCycles
    /\ LET b == GptTestFixBeginRestart(
                    [cycles EXCEPT ![i] = Return(cycles[i], "reran")])
       IN /\ cycles' = b.cycles
          /\ exited' = b.exit
          /\ exitCode' = IF b.exit THEN ErrorExitCode ELSE exitCode
    /\ UNCHANGED <<env, fileData, entered, watcher, watchers,
                   abortController, controllers>>

NextRestart ==
    \/ EntryRestart
    \/ \E i \in DOMAIN cycles : LsDoneRestart(i)
    \/ \E i \in DOMAIN cycles : TestDoneRestart(i, 0, <<>>)
    \/ \E i \in DOMAIN cycles : \E s \in StderrTexts : TestDoneRestart(i, 1, s)
    \/ \E i \in DOMAIN cycles : \E r \in DiffResponses : FetchDoneRestart(i, r)
    \/ \E i \in DOMAIN cycles : \E a \in BOOLEAN : ApplyAnswerRestart(i, a)
    \/ \E i \in DOMAIN cycles : RestartAnswer(i)

SpecRestart == Init /\ [][NextRestart]_vars

(* ------------------------------ claims -------------------------------- *)

\* a step of a change handler: the only steps after entry() that create a
\* controller
HandlerStep == entered /\ Len(controllers') > Len(controllers)

MissingOption ==
    Falsy(opts.testToRun) \/ Falsy(opts.fileToFix) \/ Falsy(opts.apiKey)

\* C1: a file-change event that arrives while a cycle's completion request is
\* pending makes that fetch reject with an AbortError in the same step; the
\* cycle has shown no apply prompt and written nothing, and a cycle that
\* failed takes no later step, whatever the endpoint answers afterwards.
C1_SupersededRequestNeverApplied ==
    [][\A i \in DOMAIN cycles :
          /\ (cycles[i].pc = "fetch" /\ HandlerStep) =>
                /\ cycles'[i].pc = "failed"
                /\ cycles'[i].err = "AbortError"
                /\ cycles'[i].prompts = 0
                /\ cycles'[i].writes = 0
                /\ fileData' = fileData
          /\ (cycles[i].pc = "failed" => cycles'[i] = cycles[i])]_vars

C1_Witness ==
    \E i \in DOMAIN cycles :
        /\ cycles[i].origin = "change"
        /\ cycles[i].err = "AbortError"
        /\ cycles[i].requests = 1
        /\ Len(cycles) > i

\* C2: a cycle whose token has been invalidated never writes the target
\* file, at whatever step it was when it was superseded.
C2_StaleCycleNeverWrites ==
    [][\A i \in DOMAIN cycles :
          Aborted(cycles[i].signal) => cycles'[i].writes = cycles[i].writes]_vars

\* C3: with a required option missing or empty the process has exited with a
\* non-zero code as soon as entry() ran, and no cycle has read the target
\* file, started a subprocess or sent a completion request.
C3_MissingOptionExits ==
    (entered /\ MissingOption) =>
        /\ exited
        /\ exitCode # 0
        /\ \A i \in DOMAIN cycles :
              /\ ~cycles[i].fileRead
              /\ cycles[i].subprocs = 0
              /\ cycles[i].requests = 0

C3_Witness ==
    /\ exited
    /\ Falsy(opts.apiKey)
    /\ ~Falsy(opts.testToRun)
    /\ ~Falsy(opts.fileToFix)

\* C4: a cycle whose test command exited with status zero reported success,
\* sent no completion request, showed no apply prompt and wrote nothing.
C4_PassingTestNoRequest ==
    \A i \in DOMAIN cycles :
        cycles[i].testResult = "pass" =>
            /\ cycles[i].success
            /\ cycles[i].requests = 0
            /\ cycles[i].prompts = 0
            /\ cycles[i].writes = 0

C4_Witness ==
    \E i \in DOMAIN cycles : cycles[i].testResult = "pass" /\ cycles[i].success

\* C5: a cycle whose test command failed with "command not found" in its
\* stderr was left by the rethrown error: no completion request, no apply
\* prompt, no write.
C5_CommandNotFoundRethrown ==
    \A i \in DOMAIN cycles :
        (cycles[i].testResult = "fail"
            /\ cycles[i].stderr = <<"sh:", "jest:", "command", "not", "found">>) =>
            /\ cycles[i].pc = "failed"
            /\ cycles[i].err = "ExecError"
            /\ cycles[i].requests = 0
            /\ cycles[i].prompts = 0
            /\ cycles[i].writes = 0

C5_Witness ==
    \E i \in DOMAIN cycles :
        /\ cycles[i].testResult = "fail"
        /\ Includes(cycles[i].stderr, CommandNotFound)
        /\ cycles[i].err = "ExecError"

\* C6: the step in which a cycle's apply prompt is answered no leaves the
\* target file as it was and is no write of that cycle; the file changes, and
\* a cycle's write count grows, only in a step that answers yes to that
\* cycle's apply prompt; and where cycles cannot overlap (no watch glob) a
\* cycle that was answered no finds the file equal to what it read at its
\* start.
C6_DeclineLeavesFile ==
    /\ [][/\ \A i \in DOMAIN cycles :
                (cycles[i].pc = "apply" /\ cycles'[i].applyChanges = "no") =>
                    (fileData' = fileData /\ cycles'[i].writes = 0)
          /\ \A i \in DOMAIN cycles :
                cycles'[i].writes # cycles[i].writes =>
                    (cycles[i].pc = "apply" /\ cycles'[i].applyChanges = "yes")
          /\ fileData' # fileData =>
                \E i \in DOMAIN cycles :
                    cycles[i].pc = "apply" /\ cycles'[i].applyChanges = "yes"]_vars
    /\ [](\A i \in DOMAIN cycles :
            (WatchFilesOf(opts) = "" /\ cycles[i].pc = "rerun"
                /\ cycles[i].applyChanges = "no") => fileData = cycles[i].file)

C6_Witness ==
    \E i \in DOMAIN cycles :
        /\ cycles[i].pc = "rerun"
        /\ cycles[i].applyChanges = "no"
        /\ cycles[i].fileChanges # cycles[i].file
        /\ fileData = cycles[i].file

\* C7: the step in which a cycle's apply prompt is answered yes leaves the
\* target file holding exactly the proposal that cycle showed: nothing of the
\* previous contents, nothing missing.
C7_AcceptWritesProposal ==
    [][\A i \in DOMAIN cycles :
          (cycles[i].pc = "apply" /\ cycles'[i].applyChanges = "yes") =>
              /\ fileData' = cycles[i].shown
              /\ cycles'[i].writes = 1]_vars

C7_Witness ==
    \E i \in DOMAIN cycles :
        /\ cycles[i].pc = "rerun"
        /\ cycles[i].applyChanges = "yes"
        /\ cycles[i].shown # cycles[i].file
        /\ cycles[i].shown # <<>>
        /\ fileData = cycles[i].shown

\* C8 as stated: with the target file missing, the cycle fails before any
\* subprocess is executed.
C8_MissingFileNoSubprocess ==
    ~fileExists => \A i \in DOMAIN cycles : cycles[i].subprocs = 0

\* C8 as amended: with the target file missing, a cycle fails with the error
\* of its `ls` existence probe, the only subprocess it starts: the file is not
\* read and the test command is never started.
C8_MissingFileFailsBeforeTest ==
    ~fileExists =>
        \A i \in DOMAIN cycles :
            /\ cycles[i].pc \in {"exit", "ls", "failed"}
            /\ ~cycles[i].fileRead
            /\ ~cycles[i].testStarted
            /\ cycles[i].testResult = "none"
            /\ cycles[i].subprocs <= 1
            /\ cycles[i].pc = "failed" =>
                  (cycles[i].err = "ExecError" /\ cycles[i].subprocs = 1)

C8_Witness ==
    /\ ~fileExists
    /\ \E i \in DOMAIN cycles :
          cycles[i].pc = "failed" /\ cycles[i].err = "ExecError"

\* C9: at every moment at most one Fix Cycle is active (running its `ls` or
\* test subprocess, awaiting the completion response, or waiting on a prompt).
C9_AtMostOneActiveCycle ==
    Cardinality({i \in DOMAIN cycles : Active(cycles[i])}) <= 1

\* C10: a change handler's step invalidates the previous token (so every
\* earlier token is invalid), creates a new token that is live and is the
\* module's current one, and starts, in that same step and whatever other
\* cycles are in flight, one new cycle bound to the new token; no fetch of an
\* earlier cycle is left pending.
C10_HandlerSwapsTokenThenStarts ==
    [][HandlerStep =>
          LET new == Len(controllers') IN
          /\ new = Len(controllers) + 1
          /\ abortController' = new
          /\ ~controllers'[new].aborted
          /\ \A k \in DOMAIN controllers : controllers'[k].aborted
          /\ Len(cycles') = Len(cycles) + 1
          /\ cycles'[Len(cycles')].signal = new
          /\ cycles'[Len(cycles')].origin = "change"
          /\ cycles'[Len(cycles')].pc = "ls"
          /\ \A i \in DOMAIN cycles : cycles'[i].pc # "fetch"]_vars

C10_Witness ==
    \E i, j \in DOMAIN cycles :
        /\ i < j
        /\ Active(cycles[i])
        /\ Aborted(cycles[i].signal)
        /\ cycles[j].origin = "change"
        /\ cycles[j].signal = abortController
        /\ ~Aborted(cycles[j].signal)
        /\ Active(cycles[j])

\* an error other than a cancellation has left the cycle
FatalError(c) == c.err \notin {"none", "AbortError"}

\* C11: the step in which a cycle is left by an AbortError reports no error
\* for it and does not end the process; this for every cycle that can be
\* superseded, the one started at startup in watch mode included.
C11_CancellationSilent ==
    [][\A i \in DOMAIN cycles :
          (cycles[i].err = "none" /\ cycles'[i].err = "AbortError") =>
              (~cycles'[i].reported /\ exited' = exited)]_vars

\* C12: every error of a cycle that is neither a test failure nor a
\* cancellation ends the process with a non-zero exit code, whoever started
\* the cycle.
C12_EveryErrorExits ==
    \A i \in DOMAIN cycles :
        FatalError(cycles[i]) => (exited /\ exitCode # 0)

\* C13: without a watch glob, a cycle that ends gracefully (its tests passed,
\* or the user declined the re-run after a proposal) ends the process with
\* exit code 0 in that very step; the process never has exit code 0 after a
\* cycle was left by an error or a required option was missing.
C13_GracefulExitZero ==
    WatchFilesOf(opts) = "" =>
        /\ \A i \in DOMAIN cycles :
              cycles[i].pc = "done" => (exited /\ exitCode = 0)
        /\ \A i \in DOMAIN cycles :
              (cycles[i].pc \in {"failed", "exit"}) => (exited /\ exitCode # 0)
        /\ (exited /\ exitCode = 0) =>
              /\ \E i \in DOMAIN cycles : cycles[i].pc = "done"
              /\ \A i \in DOMAIN cycles :
                    cycles[i].err = "none" /\ cycles[i].pc \in {"done", "reran"}

C13_Witness ==
    /\ WatchFilesOf(opts) = ""
    /\ exited
    /\ exitCode = 0
    /\ \E i \in DOMAIN cycles :
          /\ cycles[i].pc = "done"
          /\ cycles[i].applyChanges = "yes"
          /\ cycles[i].testResult = "fail"

\* C14: in watch mode, while the process runs and the Change Trigger has been
\* set up (some cycle reached its end), a watcher with the change handler is
\* open, so that a later file-change event starts a new cycle.
C14_TriggerStaysSubscribed ==
    (Running /\ WatchFilesOf(opts) # ""
        /\ \E i \in DOMAIN cycles : cycles[i].pc = "done") =>
        \E w \in DOMAIN watchers :
            watchers[w].kind = "change" /\ watchers[w].open

\* C15: with a watch glob that matches no path, no test command is started,
\* no completion request is sent and no watcher with a change handler is
\* ever opened.
C15_UnmatchedGlobExitsFirst ==
    (WatchFilesOf(opts) # "" /\ ~globMatches) =>
        /\ \A i \in DOMAIN cycles :
              ~cycles[i].testStarted /\ cycles[i].requests = 0
        /\ \A w \in DOMAIN watchers : watchers[w].kind # "change"

\* C16: the apply prompt is shown only for a response that carries the
\* assistant message content; a response without a message never becomes a
\* proposal the user could accept.
C16_NoProposalWithoutContent ==
    \A i \in DOMAIN cycles :
        cycles[i].pc = "apply" => cycles[i].response.kind = "content"

\* t is s without its leading and trailing white space
IsTrimOf(t, s) ==
    \E k \in 0..Len(s) :
        /\ k + Len(t) <= Len(s)
        /\ t = SubSeq(s, k + 1, k + Len(t))
        /\ \A j \in 1..k : s[j] \in WhiteSpace
        /\ \A j \in (k + Len(t) + 1)..Len(s) : s[j] \in WhiteSpace
        /\ t # <<>> => (t[1] \notin WhiteSpace /\ t[Len(t)] \notin WhiteSpace)

\* C17 as stated: the proposal shown for a response is character for
\* character its message content.
C17_ProposalVerbatim ==
    \A i \in DOMAIN cycles :
        (cycles[i].pc = "apply" /\ cycles[i].response.kind = "content") =>
            cycles[i].shown = cycles[i].response.content

\* C17 as amended: the proposal shown for a response that carries content is
\* that content without its leading and trailing white space, and that text
\* is what an accepted proposal leaves in the file.
C17_ProposalIsTrimmedContent ==
    /\ [](\A i \in DOMAIN cycles :
            (cycles[i].pc = "apply" /\ cycles[i].response.kind = "content") =>
                /\ IsTrimOf(cycles[i].shown, cycles[i].response.content)
                /\ cycles[i].fileChanges = cycles[i].shown)
    /\ [][\A i \in DOMAIN cycles :
            (cycles[i].pc = "apply" /\ cycles[i].response.kind = "content"
                /\ cycles'[i].applyChanges = "yes") =>
                IsTrimOf(fileData', cycles[i].response.content)]_vars

C17_Witness ==
    \E i \in DOMAIN cycles :
        /\ cycles[i].pc = "apply"
        /\ cycles[i].response.content = <<" ", "b", "\n">>
        /\ cycles[i].shown = <<"b">>

\* C18: a cycle sends at most one completion request, and only after its test
\* command failed with a stderr that does not hold "command not found"; a
\* cycle left by an error keeps its count (C1: it takes no later step), so
\* the requests of a run are at most its cycles.
C18_AtMostOneRequest ==
    \A i \in DOMAIN cycles :
        /\ cycles[i].requests <= 1
        /\ cycles[i].pc \in {"exit", "ls", "test"} => cycles[i].requests = 0
        /\ cycles[i].requests = 1 =>
              /\ cycles[i].testResult = "fail"
              /\ ~Includes(cycles[i].stderr, CommandNotFound)
              /\ cycles[i].stderr # <<>>

C18_Witness ==
    \E i \in DOMAIN cycles :
        /\ cycles[i].err = "FetchError"
        /\ cycles[i].requests = 1
        /\ Len(cycles) > i

\* C19: once entry() ran, the module's current token is the newest one and
\* is live; every older token is invalidated, so every cycle bound to another
\* token than the current one holds an invalidated token.
C19_SingleLiveToken ==
    entered =>
        /\ abortController = Len(controllers)
        /\ ~Aborted(abortController)
        /\ \A k \in DOMAIN controllers : k # abortController => Aborted(k)
        /\ \A i \in DOMAIN cycles :
              cycles[i].signal # abortController => Aborted(cycles[i].signal)

C19_Witness ==
    /\ Len(controllers) >= 3
    /\ \E i \in DOMAIN cycles :
          Active(cycles[i]) /\ cycles[i].signal # abortController

\* C20: the step that answers yes to "Run the tests again?" starts a new
\* cycle at step 1 with the same options, the same token and the same catcher,
\* having read nothing yet; and the step that starts a cycle's test command
\* has just read the file as it is on disk at that moment.
C20_RerunRereadsFile ==
    [][\A i \in DOMAIN cycles :
          /\ (cycles[i].pc = "rerun" /\ cycles'[i].pc = "reran") =>
                /\ Len(cycles') = Len(cycles) + 1
                /\ cycles'[Len(cycles')].pc = "ls"
                /\ cycles'[Len(cycles')].signal = cycles[i].signal
                /\ cycles'[Len(cycles')].origin = cycles[i].origin
                /\ ~cycles'[Len(cycles')].fileRead
                /\ ~cycles'[Len(cycles')].testStarted
                /\ opts' = opts
          /\ (cycles[i].pc = "ls" /\ cycles'[i].testStarted) =>
                /\ cycles'[i].fileRead
                /\ cycles'[i].file = fileData]_vars

C20_Witness ==
    /\ WatchFilesOf(opts) = ""
    /\ \E i \in DOMAIN cycles :
          /\ i + 1 \in DOMAIN cycles
          /\ cycles[i].pc = "reran"
          /\ cycles[i].applyChanges = "yes"
          /\ cycles[i + 1].pc = "test"
          /\ cycles[i + 1].signal = cycles[i].signal
          /\ cycles[i + 1].file = <<"b">>
          /\ fileData = <<"b">>

\* C21: a cycle (a first run or a re-run) whose token is already invalidated
\* while it has not sent its completion request never sends one and never
\* gets a proposal: its next step shows no apply prompt and writes nothing,
\* and when that step is the failure of its test command (without "command
\* not found") the cycle is left by the AbortError of its fetch.
C21_InvalidatedBeforeRequest ==
    [][\A i \in DOMAIN cycles :
          (Aborted(cycles[i].signal) /\ cycles[i].requests = 0) =>
              /\ cycles'[i].requests = 0
              /\ cycles'[i].prompts = 0
              /\ cycles'[i].writes = 0
              /\ cycles'[i].fileChanges = <<>>
              /\ cycles'[i].pc \notin {"fetch", "apply", "rerun"}
              /\ (cycles[i].pc = "test" /\ cycles'[i].testResult = "fail"
                    /\ ~Includes(cycles'[i].stderr, CommandNotFound)) =>
                    /\ cycles'[i].pc = "failed"
                    /\ cycles'[i].err = "AbortError"
                    /\ fileData' = fileData]_vars

\* a re-run (of a cycle that got a proposal) holding an invalidated token
\* was left by the AbortError of its fetch, without a request
C21_Witness ==
    \E i \in DOMAIN cycles : \E j \in DOMAIN cycles :
        /\ i < j
        /\ cycles[i].pc = "reran"
        /\ cycles[i].requests = 1
        /\ cycles[j].signal = cycles[i].signal
        /\ cycles[j].origin = "change"
        /\ Aborted(cycles[j].signal)
        /\ cycles[j].testResult = "fail"
        /\ ~Includes(cycles[j].stderr, CommandNotFound)
        /\ cycles[j].err = "AbortError"
        /\ cycles[j].requests = 0
        /\ cycles[j].prompts = 0
        /\ cycles[j].writes = 0

\* the watchers that are open and carry the change handler
OpenChangeWatchers ==
    {w \in DOMAIN watchers : watchers[w].kind = "change" /\ watchers[w].open}

\* C22: at most one watcher with a change handler is open; a step that
\* replaces the module-level watcher leaves the replaced one closed; and a
\* watcher with the change handler is closed only by the setupWatcher that
\* opens its successor, never by a "ready" callback.
C22_SingleChangeSubscription ==
    /\ [](Cardinality(OpenChangeWatchers) <= 1)
    /\ [][/\ (watcher # 0 /\ watcher' # watcher) => ~watchers'[watcher].open
          /\ \A w \in OpenChangeWatchers :
                ~watchers'[w].open =>
                    /\ Len(watchers') = Len(watchers) + 1
                    /\ watchers'[Len(watchers')].kind = "change"]_vars

====
